---- MODULE Spec2Model ----
(***************************************************************************)
(* sic-watcher (src/src/sic-watcher.c): a kqueue directory watcher that    *)
(* prints the path of every regular file that newly appears in a           *)
(* directory.  The module models main(), scan_and_report(), the seen-set   *)
(* (is_seen / mark_seen), the signal handler, and the environment the      *)
(* program observes: the directory's contents, the kqueue event, signals   *)
(* and failing system calls.                                               *)
(***************************************************************************)
EXTENDS Integers, Sequences, FiniteSets, TLC

(***************************************************************************)
(* Bounds of the model.                                                    *)
(***************************************************************************)
\* Capacity of the seen-set.  The program's value is 4096 (#define MAX_SEEN,
\* line 27); the model runs the same code with a small capacity so that the
\* set fills up and evicts.
MAX_SEEN == 2
\* Inode numbers of regular files are 1..MaxInode.
MaxInode == 3
\* Changes made to the directory by other processes while the program runs:
\* entries created and entries removed.
MaxCreates == 1
MaxDeletes == 1
\* Command-line arguments after the program name.
MaxArgs == 2

(***************************************************************************)
(* The environment: names, directory entries, stat().                      *)
(***************************************************************************)
\* Names are sequences of characters, so that d_name[0] is Name[1].
DotNames == << <<".">>, <<".", ".">> >>
FileNames == << <<"a">>, <<"b">>, <<"c">>, <<".", "h">> >>
\* The order in which readdir returns the names that are present.
DirOrder == DotNames \o FileNames
Range(s) == {s[i] : i \in 1..Len(s)}
Names == Range(DirOrder)

Inodes == 1..MaxInode
NoEntry == [kind |-> "none", to |-> "none", ino |-> 0]
\* A directory entry: what it is (kind), what stat() resolves it to (to: a
\* symlink is followed), and the inode stat() reports.  The inode is only
\* ever read for entries that resolve to a regular file; the others carry 0.
Entries ==
    [kind : {"reg"}, to : {"reg"}, ino : Inodes]
      \cup [kind : {"lnk"}, to : {"reg"}, ino : Inodes]
      \cup [kind : {"dir"}, to : {"dir"}, ino : {0}]
      \cup [kind : {"lnk"}, to : {"dir", "dangling"}, ino : {0}]
DotDir == [kind |-> "dir", to |-> "dir", ino |-> 0]

Signals == {"SIGINT", "SIGTERM"}
NoExit == -1

VARIABLES
    argv,          \* argv[i..argc-1]: the arguments not yet parsed
    pc,            \* position of main()
    null_term,     \* main's null_term
    dirpath,       \* main's dirpath (<<>> models NULL)
    handler,       \* disposition of SIGTERM and SIGINT
    g_running,     \* the volatile sig_atomic_t flag
    seen_inodes,   \* the array, indexed 0..MAX_SEEN-1
    seen_count,
    dirfd, kq,     \* "none", "open", "closed"
    registered,    \* the EVFILT_VNODE filter is registered on kq
    event_pending, \* NOTE_WRITE has fired and was not yet retrieved
    interrupted,   \* a signal handler ran while main was inside kevent()
    fs,            \* the directory: name -> entry
    listing,       \* the names of the open DIR stream
    idx,           \* next entry readdir will return
    output,        \* records written to stdout and flushed
    exit_status,
    \* history variables (not read by the program)
    fatal,         \* which error path ended the process
    inserted,      \* every mark_seen call, in order: inode, caller, name
    last_write,    \* index of the array slot the last mark_seen wrote
    ncreates, ndeletes,
    entered_watching, nscans,
    flag_waits, flag_wait_returns, flag_scans,
    sig_in_scan,
    given_0        \* "-0" was among the arguments the loop has gone through

vars == << argv, pc, null_term, dirpath, handler, g_running, seen_inodes,
           seen_count, dirfd, kq, registered, event_pending, interrupted, fs,
           listing, idx, output, exit_status, fatal, inserted, last_write,
           ncreates, ndeletes, entered_watching, nscans, flag_waits,
           flag_wait_returns, flag_scans, sig_in_scan, given_0 >>

startvars == << argv, null_term, dirpath, handler, given_0 >>
seenvars == << seen_inodes, seen_count, inserted, last_write >>
scanvars == << listing, idx >>
fdvars == << dirfd, kq, registered >>
envvars == << fs, ncreates, ndeletes >>
sigvars == << g_running, sig_in_scan >>
flagvars == << flag_waits, flag_wait_returns, flag_scans >>
progvars == << argv, pc, null_term, dirpath, handler, seen_inodes,
               seen_count, dirfd, kq, registered, listing, idx, output,
               exit_status, fatal, inserted, last_write, entered_watching,
               nscans, flag_waits, flag_wait_returns, flag_scans, given_0 >>
exitvars == << exit_status, fatal >>

(***************************************************************************)
(* Pure parts of the program.                                              *)
(***************************************************************************)
Min(a, b) == IF a < b THEN a ELSE b

\* Hidden as it would be if only "." and ".." were skipped.
Hidden_dot_dirs_only(name) == name = <<".">> \/ name = <<".", ".">>

\* entry->d_name[0] == '.'
Hidden(name) == name[1] = "."

\* stat(fullpath, &st): follows symlinks; fails when the name is gone or
\* the link dangles.
Stat(e) ==
    [ok |-> e.kind # "none" /\ e.to # "dangling",
     isreg |-> e.to = "reg",
     ino |-> e.ino]

\* snprintf(fullpath, ..., "%s/%s", dirpath, entry->d_name)
FullPath(dir, name) == dir \o <<"/">> \o name

\* The names opendir/readdir will return: those present, in directory order.
Present(f, name) == f[name].kind # "none"
ListDir(f) == SelectSeq(DirOrder, LAMBDA n : Present(f, n))

\* is_seen with the search started at slot 1 instead of slot 0.
is_seen_from_one(arr, cnt, inode) ==
    \E i \in 1..(cnt - 1) : i \in DOMAIN arr /\ arr[i] = inode

\* is_seen: linear search of seen_inodes[0 .. seen_count-1].
is_seen(arr, cnt, inode) ==
    \E i \in 0..(cnt - 1) : i \in DOMAIN arr /\ arr[i] = inode

\* mark_seen without the seen_count++ of line 50.
mark_seen_no_count(arr, cnt, inode) ==
    IF cnt < MAX_SEEN
    THEN [arr |-> [i \in DOMAIN arr |-> IF i = cnt THEN inode ELSE arr[i]],
          cnt |-> cnt,
          widx |-> cnt]
    ELSE [arr |-> [i \in DOMAIN arr |->
                      IF i < MAX_SEEN - 1 THEN arr[i + 1] ELSE inode],
          cnt |-> cnt,
          widx |-> MAX_SEEN - 1]

\* mark_seen with the test of line 49 written seen_count <= MAX_SEEN.
mark_seen_le(arr, cnt, inode) ==
    IF cnt <= MAX_SEEN
    THEN [arr |-> [i \in DOMAIN arr |-> IF i = cnt THEN inode ELSE arr[i]],
          cnt |-> cnt + 1,
          widx |-> cnt]
    ELSE [arr |-> [i \in DOMAIN arr |->
                      IF i < MAX_SEEN - 1 THEN arr[i + 1] ELSE inode],
          cnt |-> cnt,
          widx |-> MAX_SEEN - 1]

\* mark_seen without the store of line 54: a full set is shifted but the
\* new inode is not written.
mark_seen_no_store(arr, cnt, inode) ==
    IF cnt < MAX_SEEN
    THEN [arr |-> [i \in DOMAIN arr |-> IF i = cnt THEN inode ELSE arr[i]],
          cnt |-> cnt + 1,
          widx |-> cnt]
    ELSE [arr |-> [i \in DOMAIN arr |->
                      IF i < MAX_SEEN - 1 THEN arr[i + 1] ELSE arr[i]],
          cnt |-> cnt,
          widx |-> MAX_SEEN - 1]

\* mark_seen: append while there is room, otherwise shift everything down
\* one slot (memmove) and store in the last slot.  The result carries the
\* index of the slot that was written.
mark_seen(arr, cnt, inode) ==
    IF cnt < MAX_SEEN
    THEN [arr |-> [i \in DOMAIN arr |-> IF i = cnt THEN inode ELSE arr[i]],
          cnt |-> cnt + 1,
          widx |-> cnt]
    ELSE [arr |-> [i \in DOMAIN arr |->
                      IF i < MAX_SEEN - 1 THEN arr[i + 1] ELSE inode],
          cnt |-> cnt,
          widx |-> MAX_SEEN - 1]

\* One pass of the argument loop with an unknown flag skipped instead of
\* calling usage().
ArgStep_lenient(arg, nt, dp) ==
    IF arg = <<"-", "0">>
    THEN [usage |-> FALSE, null_term |-> 1, dirpath |-> dp]
    ELSE IF arg[1] = "-"
    THEN [usage |-> FALSE, null_term |-> nt, dirpath |-> dp]
    ELSE [usage |-> FALSE, null_term |-> nt, dirpath |-> arg]

\* One pass of the argument loop of main (lines 116-122): "-0" sets
\* null_term, any other argument that starts with '-' calls usage(),
\* anything else becomes dirpath (the last one wins).
ArgStep(arg, nt, dp) ==
    IF arg = <<"-", "0">>
    THEN [usage |-> FALSE, null_term |-> 1, dirpath |-> dp]
    ELSE IF arg[1] = "-"
    THEN [usage |-> TRUE, null_term |-> nt, dirpath |-> dp]
    ELSE [usage |-> FALSE, null_term |-> nt, dirpath |-> arg]

\* The loop condition as while (1).
LoopCond_always(running) == TRUE

\* while (g_running)
LoopCond(running) == running # 0

\* The separator as it would be if null_term were not consulted.
Separator_newline_only(nt) == "LF"

\* Lines 91-94: if (null_term) fputc('\0', stdout); else fputc('\n', stdout);
Separator(nt) == IF nt # 0 THEN "NUL" ELSE "LF"

\* stdio: fputs appends the characters of the string to the buffer of the
\* stream and fputc appends one character; the fflush of line 95 hands the
\* buffer to the descriptor before the loop goes on.
fputs(buf, str) == buf \o str
fputc(buf, c) == Append(buf, c)

\* The record scan_and_report writes for a new file: the path, then '\0'
\* or '\n'; bytes is what lines 90-95 put on the stream.  The other fields
\* are history: the entry's name, the inode stat() reported, what the entry
\* was, the number of the mark_seen call made for it, and the value
\* g_running had when it was written.
Record(dir, name, e, nt, seq, running) ==
    [path |-> FullPath(dir, name),
     sep |-> Separator(nt),
     bytes |-> fputc(fputs(<<>>, FullPath(dir, name)), Separator(nt)),
     name |-> name,
     ino |-> e.ino,
     kind |-> e.kind,
     seq |-> seq,
     running |-> running]

(***************************************************************************)
(* Initial state.                                                          *)
(***************************************************************************)
ArgTokens == {<<"-", "0">>, <<"-", "x">>, <<"d">>}
ArgVectors == UNION {[1..n -> ArgTokens] : n \in 0..MaxArgs}

\* Directory contents before the program starts: regular files (hard links
\* among them) under the names that are not hidden.  Hidden entries and
\* entries of the other kinds come from FsCreate, which can act before the
\* initial scan.  The program only compares inode numbers for equality, so
\* the initial files are numbered in directory order: each inode is one
\* already used or the next free one.
MaxOf(S) == IF S = {} THEN 0 ELSE CHOOSE m \in S : \A x \in S : x <= m
NumberedInOrder(f) ==
    \A i \in 1..Len(DirOrder) :
        f[DirOrder[i]].ino <= 1 + MaxOf({f[DirOrder[j]].ino : j \in 1..(i - 1)})
RegularFiles == [kind : {"reg"}, to : {"reg"}, ino : Inodes]
InitDirs ==
    {f \in [Names -> RegularFiles \cup {DotDir, NoEntry}] :
        /\ \A n \in Names : (f[n] = DotDir) <=> (n \in Range(DotNames))
        /\ \A n \in Names : Present(f, n) /\ f[n] # DotDir => n[1] # "."
        /\ NumberedInOrder(f)}

Init ==
    /\ argv \in ArgVectors
    /\ pc = "args"
    /\ null_term = 0
    /\ dirpath = <<>>
    /\ handler = [s \in Signals |-> "SIG_DFL"]
    /\ g_running = 1
    /\ seen_inodes = [i \in 0..(MAX_SEEN - 1) |-> 0]
    /\ seen_count = 0
    /\ dirfd = "none"
    /\ kq = "none"
    /\ registered = FALSE
    /\ event_pending = FALSE
    /\ interrupted = FALSE
    /\ fs \in InitDirs
    /\ listing = <<>>
    /\ idx = 0
    /\ output = <<>>
    /\ exit_status = NoExit
    /\ fatal = "none"
    /\ inserted = <<>>
    /\ last_write = 0
    /\ ncreates = 0
    /\ ndeletes = 0
    /\ entered_watching = FALSE
    /\ nscans = 0
    /\ flag_waits = 0
    /\ flag_wait_returns = 0
    /\ flag_scans = 0
    /\ sig_in_scan = FALSE
    /\ given_0 = FALSE

(***************************************************************************)
(* main(): start-up.                                                       *)
(***************************************************************************)
Alive == pc \notin {"Stopped", "Killed"}

\* Lines 115-123: one pass of the argument loop on argv[i]; usage() exits
\* with status 1.
ArgsLoop ==
    /\ pc = "args"
    /\ argv # <<>>
    /\ LET r == ArgStep(Head(argv), null_term, dirpath) IN
         IF r.usage
         THEN /\ pc' = "Stopped"
              /\ exit_status' = 1
              /\ fatal' = "usage"
              /\ UNCHANGED << argv, null_term, dirpath, given_0 >>
         ELSE /\ argv' = Tail(argv)
              /\ given_0' = (given_0 \/ Head(argv) = <<"-", "0">>)
              /\ null_term' = r.null_term
              /\ dirpath' = r.dirpath
              /\ UNCHANGED << pc, exitvars >>
    /\ UNCHANGED << handler, seenvars, scanvars, fdvars, envvars, sigvars,
                    flagvars, event_pending, interrupted, output,
                    entered_watching, nscans >>

\* Lines 125-126: after the loop, usage() when no directory was given.
ArgsEnd ==
    /\ pc = "args"
    /\ argv = <<>>
    /\ IF dirpath = <<>>
       THEN /\ pc' = "Stopped"
            /\ exit_status' = 1
            /\ fatal' = "usage"
       ELSE /\ pc' = "sigaction_term"
            /\ UNCHANGED exitvars
    /\ UNCHANGED << startvars, seenvars, scanvars, fdvars, envvars, sigvars,
                    flagvars, event_pending, interrupted, output,
                    entered_watching, nscans >>

\* Lines 129-133: sigaction(SIGTERM), then sigaction(SIGINT).
Sigaction(at, sig, next) ==
    /\ pc = at
    /\ handler' = [handler EXCEPT ![sig] = "handle_signal"]
    /\ pc' = next
    /\ UNCHANGED << argv, null_term, dirpath, given_0, seenvars, scanvars,
                    fdvars, envvars, sigvars, flagvars, exitvars,
                    event_pending, interrupted, output, entered_watching,
                    nscans >>
SigactionTerm == Sigaction("sigaction_term", "SIGTERM", "sigaction_int")
SigactionInt == Sigaction("sigaction_int", "SIGINT", "open")

\* Lines 136-141: open(dirpath, O_RDONLY | O_DIRECTORY).
OpenDir ==
    /\ pc = "open"
    /\ \E ok \in BOOLEAN :
         IF ok
         THEN /\ dirfd' = "open"
              /\ pc' = "kqueue"
              /\ UNCHANGED exitvars
         ELSE /\ pc' = "Stopped"
              /\ exit_status' = 1
              /\ fatal' = "open"
              /\ UNCHANGED dirfd
    /\ UNCHANGED << startvars, seenvars, scanvars, kq, registered, envvars,
                    sigvars, flagvars, event_pending, interrupted, output,
                    entered_watching, nscans >>

\* The kqueue step as it would be without the close(dirfd) of line 147.
Kqueue_without_close ==
    /\ pc = "kqueue"
    /\ \E ok \in BOOLEAN :
         IF ok
         THEN /\ kq' = "open"
              /\ pc' = "register"
              /\ UNCHANGED << dirfd, exitvars >>
         ELSE /\ pc' = "Stopped"
              /\ exit_status' = 1
              /\ fatal' = "kqueue"
              /\ UNCHANGED << dirfd, kq >>
    /\ UNCHANGED << startvars, seenvars, scanvars, registered, envvars,
                    sigvars, flagvars, event_pending, interrupted, output,
                    entered_watching, nscans >>

\* Lines 144-149: kqueue(); on failure close(dirfd) and return 1.
Kqueue ==
    /\ pc = "kqueue"
    /\ \E ok \in BOOLEAN :
         IF ok
         THEN /\ kq' = "open"
              /\ pc' = "register"
              /\ UNCHANGED << dirfd, exitvars >>
         ELSE /\ dirfd' = "closed"
              /\ pc' = "Stopped"
              /\ exit_status' = 1
              /\ fatal' = "kqueue"
              /\ UNCHANGED kq
    /\ UNCHANGED << startvars, seenvars, scanvars, registered, envvars,
                    sigvars, flagvars, event_pending, interrupted, output,
                    entered_watching, nscans >>

\* Lines 154-163: register EVFILT_VNODE / NOTE_WRITE; on failure close both
\* descriptors and return 1.
Register ==
    /\ pc = "register"
    /\ \E ok \in BOOLEAN :
         IF ok
         THEN /\ registered' = TRUE
              /\ pc' = "seed_open"
              /\ UNCHANGED << dirfd, kq, exitvars >>
         ELSE /\ kq' = "closed"
              /\ dirfd' = "closed"
              /\ pc' = "Stopped"
              /\ exit_status' = 1
              /\ fatal' = "register"
              /\ UNCHANGED registered
    /\ UNCHANGED << startvars, seenvars, scanvars, envvars, sigvars,
                    flagvars, event_pending, interrupted, output,
                    entered_watching, nscans >>

(***************************************************************************)
(* main(): the initial scan (lines 165-183).                               *)
(***************************************************************************)
\* opendir(dirpath); when it fails the whole block is skipped.
SeedOpen ==
    /\ pc = "seed_open"
    /\ \E ok \in BOOLEAN :
         IF ok
         THEN /\ listing' = ListDir(fs)
              /\ idx' = 1
              /\ pc' = "seed_loop"
              /\ UNCHANGED entered_watching
         ELSE /\ pc' = "loop"
              /\ entered_watching' = TRUE
              /\ UNCHANGED scanvars
    /\ nscans' = nscans + 1
    /\ UNCHANGED << startvars, seenvars, fdvars, envvars, sigvars, flagvars,
                    exitvars, event_pending, interrupted, output >>

\* The initial scan marks an entry when it is not hidden and stat() says it
\* is a regular file (line 177); it does not call is_seen.
Seedable(name, e) == ~Hidden(name) /\ Stat(e).ok /\ Stat(e).isreg

\* One readdir of the initial scan, or its end (closedir).
SeedStep ==
    /\ pc = "seed_loop"
    /\ IF idx <= Len(listing)
       THEN LET name == listing[idx]
                e == fs[name]
            IN  /\ IF Seedable(name, e)
                   THEN LET m == mark_seen(seen_inodes, seen_count, e.ino) IN
                          /\ seen_inodes' = m.arr
                          /\ seen_count' = m.cnt
                          /\ last_write' = m.widx
                          /\ inserted' =
                               Append(inserted,
                                      [ino |-> e.ino, by |-> "seed",
                                       name |-> name])
                   ELSE UNCHANGED seenvars
                /\ idx' = idx + 1
                /\ UNCHANGED << pc, listing, entered_watching >>
       ELSE /\ pc' = "loop"
            /\ entered_watching' = TRUE
            /\ UNCHANGED << seenvars, scanvars >>
    /\ UNCHANGED << startvars, fdvars, envvars, sigvars, flagvars, exitvars,
                    event_pending, interrupted, output, nscans >>

(***************************************************************************)
(* main(): the event loop (lines 186-204) and the exit (lines 206-208).    *)
(***************************************************************************)
\* while (g_running)
LoopCheck ==
    /\ pc = "loop"
    /\ IF LoopCond(g_running)
       THEN /\ pc' = "wait"
            /\ flag_waits' =
                 IF g_running = 0 THEN Min(flag_waits + 1, 2) ELSE flag_waits
       ELSE /\ pc' = "cleanup"
            /\ UNCHANGED flag_waits
    /\ interrupted' = FALSE
    /\ UNCHANGED << startvars, seenvars, scanvars, fdvars, envvars, sigvars,
                    exitvars, event_pending, output, entered_watching,
                    nscans, flag_wait_returns, flag_scans >>

\* The loop body as it would be if it scanned whenever kevent did not fail.
AfterWait_scan_on_timeout(n, eintr) ==
    IF n < 0
    THEN IF eintr THEN "loop" ELSE "cleanup"
    ELSE "settle"

\* Lines 191-203: where the loop body goes with the value n of kevent:
\* n < 0 continues on EINTR and breaks otherwise, n > 0 sleeps and scans,
\* n == 0 falls through to the loop condition.
AfterWait(n, eintr) ==
    IF n < 0
    THEN IF eintr THEN "loop" ELSE "cleanup"
    ELSE IF n > 0 THEN "settle" ELSE "loop"

\* What every return of kevent(kq, NULL, 0, &event, 1, &timeout) leaves alone.
WaitReturns ==
    /\ flag_wait_returns' =
         IF g_running = 0 THEN Min(flag_wait_returns + 1, 2)
         ELSE flag_wait_returns
    /\ interrupted' = FALSE
    /\ UNCHANGED << startvars, seenvars, scanvars, fdvars, envvars, sigvars,
                    output, entered_watching, nscans, flag_waits,
                    flag_scans, exit_status >>

\* n < 0 with errno == EINTR: continue.
WaitEINTR ==
    /\ pc = "wait"
    /\ interrupted
    /\ pc' = AfterWait(-1, TRUE)
    /\ UNCHANGED << event_pending, fatal >>
    /\ WaitReturns

\* n < 0 with another errno: perror and break.
WaitError ==
    /\ pc = "wait"
    /\ pc' = AfterWait(-1, FALSE)
    /\ fatal' = "wait"
    /\ UNCHANGED event_pending
    /\ WaitReturns

\* n == 0: the one-second timeout passed with no event.
WaitTimeout ==
    /\ pc = "wait"
    /\ ~event_pending
    /\ pc' = AfterWait(0, FALSE)
    /\ UNCHANGED << event_pending, fatal >>
    /\ WaitReturns

\* n > 0: the directory changed.  EV_CLEAR resets the event on retrieval.
WaitEvent ==
    /\ pc = "wait"
    /\ event_pending
    /\ event_pending' = FALSE
    /\ pc' = AfterWait(1, FALSE)
    /\ UNCHANGED fatal
    /\ WaitReturns

\* usleep(50000)
Settle ==
    /\ pc = "settle"
    /\ pc' = "scan_open"
    /\ UNCHANGED << startvars, seenvars, scanvars, fdvars, envvars, sigvars,
                    flagvars, exitvars, event_pending, interrupted, output,
                    entered_watching, nscans >>

\* close(kq); close(dirfd); return 0;
Cleanup ==
    /\ pc = "cleanup"
    /\ kq' = "closed"
    /\ dirfd' = "closed"
    /\ registered' = FALSE
    /\ pc' = "Stopped"
    /\ exit_status' = 0
    /\ UNCHANGED << startvars, seenvars, scanvars, envvars, sigvars,
                    flagvars, fatal, event_pending, interrupted, output,
                    entered_watching, nscans >>

(***************************************************************************)
(* scan_and_report (lines 62-102).                                         *)
(***************************************************************************)
\* opendir(dirpath); return 0 when it fails.
ScanOpen ==
    /\ pc = "scan_open"
    /\ \E ok \in BOOLEAN :
         IF ok
         THEN /\ listing' = ListDir(fs)
              /\ idx' = 1
              /\ pc' = "scan_loop"
         ELSE /\ pc' = "loop"
              /\ UNCHANGED scanvars
    /\ nscans' = nscans + 1
    /\ flag_scans' = IF g_running = 0 THEN Min(flag_scans + 1, 2) ELSE flag_scans
    /\ UNCHANGED << startvars, seenvars, fdvars, envvars, sigvars, exitvars,
                    event_pending, interrupted, output, entered_watching,
                    flag_waits, flag_wait_returns >>

\* The scan loop as it would be if it also stopped on the shutdown flag.
ScanMore_while_running(running, i, list) == running # 0 /\ i <= Len(list)

\* while ((entry = readdir(d)) != NULL): the loop goes on as long as the
\* stream has entries; it does not read g_running.
ScanMore(running, i, list) == i <= Len(list)

\* Lines 72-87: the entry is reported when its name is not hidden, stat()
\* succeeds, the result is a regular file and its inode is not in the set.
Reportable(name, e, arr, cnt) ==
    /\ ~Hidden(name)
    /\ Stat(e).ok
    /\ Stat(e).isreg
    /\ ~is_seen(arr, cnt, Stat(e).ino)

\* One readdir of scan_and_report with the body of the loop, or the end of
\* the loop (closedir; return found).
ScanStep ==
    /\ pc = "scan_loop"
    /\ IF ScanMore(g_running, idx, listing)
       THEN LET name == listing[idx]
                e == fs[name]
            IN  /\ IF Reportable(name, e, seen_inodes, seen_count)
                   THEN LET m == mark_seen(seen_inodes, seen_count, e.ino) IN
                          /\ seen_inodes' = m.arr
                          /\ seen_count' = m.cnt
                          /\ last_write' = m.widx
                          /\ inserted' =
                               Append(inserted,
                                      [ino |-> e.ino, by |-> "scan",
                                       name |-> name])
                          /\ output' =
                               Append(output,
                                      Record(dirpath, name, e, null_term,
                                             Len(inserted) + 1, g_running))
                   ELSE UNCHANGED << seenvars, output >>
                /\ idx' = idx + 1
                /\ UNCHANGED << pc, listing >>
       ELSE /\ pc' = "loop"
            /\ UNCHANGED << seenvars, scanvars, output >>
    /\ UNCHANGED << startvars, fdvars, envvars, sigvars, flagvars, exitvars,
                    event_pending, interrupted, entered_watching, nscans >>

(***************************************************************************)
(* The environment: signals and other processes changing the directory.    *)
(***************************************************************************)
\* handle_signal as it would be if it flipped the flag.
handle_signal_toggle(sig, running) == 1 - running

\* Lines 31-34: (void)sig; g_running = 0;  The value is the new g_running.
handle_signal(sig, running) == 0

\* Delivery of SIGINT or SIGTERM.  With handle_signal installed the handler
\* clears g_running (lines 31-34); before sigaction the default action
\* terminates the process.
HandleSignal(sig) ==
    /\ Alive
    /\ IF handler[sig] = "handle_signal"
       THEN /\ g_running' = handle_signal(sig, g_running)
            /\ interrupted' = (interrupted \/ pc = "wait")
            /\ sig_in_scan' = (sig_in_scan \/ pc \in {"scan_open", "scan_loop"})
            /\ UNCHANGED pc
       ELSE /\ pc' = "Killed"
            /\ UNCHANGED << g_running, interrupted, sig_in_scan >>
    /\ UNCHANGED << startvars, seenvars, scanvars, fdvars, envvars, flagvars,
                    exitvars, event_pending, output, entered_watching,
                    nscans >>
Signal == \E sig \in Signals : HandleSignal(sig)

\* NOTE_WRITE fires on the registered directory when an entry is created,
\* deleted or renamed.
Notify == event_pending \/ (registered /\ kq = "open")

\* The inode a new entry can resolve to: one the directory or the program
\* has met (a hard link, a link to a file of the directory, a recycled
\* number) or a number not met before.  Numbers not met before are all
\* alike to the program, so the smallest stands for them.
KnownInodes ==
    {fs[n].ino : n \in Names} \cup {inserted[i].ino : i \in 1..Len(inserted)}
NewInodes ==
    {0} \cup (KnownInodes \cap Inodes)
        \cup {i \in Inodes : /\ i \notin KnownInodes
                             /\ \A j \in Inodes \ KnownInodes : i <= j}

\* The program reads the directory in opendir and stat and learns of changes
\* in kevent; a change made at any other point of main is the same change
\* made at the next of these.
Observing ==
    pc \in {"register", "seed_open", "seed_loop", "wait", "settle",
            "scan_open", "scan_loop"}

\* Another process creates an entry (a file, a hard link, a directory or a
\* symlink) under a name that is free.
FsCreate ==
    /\ Observing
    /\ ncreates < MaxCreates
    /\ \E name \in Range(FileNames), e \in Entries :
         /\ ~Present(fs, name)
         /\ e.ino \in NewInodes
         /\ fs' = [fs EXCEPT ![name] = e]
    /\ ncreates' = ncreates + 1
    /\ event_pending' = Notify
    /\ UNCHANGED << progvars, sigvars, interrupted, ndeletes >>

\* Another process removes an entry.
FsDelete ==
    /\ Observing
    /\ ndeletes < MaxDeletes
    /\ \E name \in Range(FileNames) :
         /\ Present(fs, name)
         /\ fs' = [fs EXCEPT ![name] = NoEntry]
    /\ ndeletes' = ndeletes + 1
    /\ event_pending' = Notify
    /\ UNCHANGED << progvars, sigvars, interrupted, ncreates >>

\* The steps of the process itself.
Main ==
    \/ ArgsLoop
    \/ ArgsEnd
    \/ SigactionTerm
    \/ SigactionInt
    \/ OpenDir
    \/ Kqueue
    \/ Register
    \/ SeedOpen
    \/ SeedStep
    \/ LoopCheck
    \/ WaitEINTR
    \/ WaitError
    \/ WaitTimeout
    \/ WaitEvent
    \/ Settle
    \/ ScanOpen
    \/ ScanStep
    \/ Cleanup

Next ==
    \/ Main
    \/ Signal
    \/ FsCreate
    \/ FsDelete

Spec == Init /\ [][Next]_vars

\* The process keeps running: every system call of main returns (kevent
\* after at most its one-second timeout) and the scans are finite, so a step
\* of main that stays possible is taken.  The sessions are those started as
\* "sic-watcher d" on a directory that holds at most the file a.
FairInit ==
    /\ Init
    /\ argv = << <<"d">> >>
    /\ \A n \in Range(FileNames) : n # <<"a">> => ~Present(fs, n)
FairSpec == FairInit /\ [][Next]_vars /\ WF_vars(Main)

\* The sessions of FairSpec in which other processes create entries only
\* once the event loop has been entered, that is, after the filter was
\* registered and the initial scan has ended.
FsCreateWatching == entered_watching /\ FsCreate
WatchNext ==
    \/ Main
    \/ Signal
    \/ FsCreateWatching
    \/ FsDelete
WatchSpec == FairInit /\ [][WatchNext]_vars /\ WF_vars(Main)

(***************************************************************************)
(* Properties.                                                             *)
(***************************************************************************)
\* The seen-set as a sequence, oldest entry first.
SeenSeq == [i \in 1..seen_count |-> seen_inodes[i - 1]]
InsertedInodes == {inserted[i].ino : i \in 1..Len(inserted)}

\* C1 (as stated): no identity appears in two emitted records, whatever the
\* number of files.
C1_NoIdentityReportedTwice ==
    \A i, j \in 1..Len(output) :
        i # j => output[i].ino # output[j].ino

\* C1 (amended): an identity is emitted a second time only after it was
\* evicted: between the two mark_seen calls of two records with the same
\* identity lie at least MAX_SEEN other mark_seen calls.  With at most
\* MAX_SEEN insertions in the session no identity is emitted twice.
C1_ReportedAgainOnlyAfterEviction ==
    \A i, j \in 1..Len(output) :
        (i < j /\ output[i].ino = output[j].ino)
            => output[j].seq - output[i].seq > MAX_SEEN

\* C1 witness: an identity was reported, evicted and reported again.
C1_Witness ==
    \E i, j \in 1..Len(output) :
        /\ i < j
        /\ output[i].ino = output[j].ino
        /\ output[i].name = output[j].name

C3_OnlyRegularEntriesEmitted ==
    \A k \in 1..Len(output) : output[k].kind = "reg"

\* C4: an entry whose name starts with a dot is never emitted and never
\* passed to mark_seen, by the initial scan or by a reporting scan.
C4_HiddenNeverEmittedNorMarked ==
    /\ \A k \in 1..Len(output) : output[k].name[1] # "."
    /\ \A p \in 1..Len(inserted) : inserted[p].name[1] # "."

\* C4 witness: a reporting scan has just passed a hidden entry that is a
\* regular file whose inode is not in the seen-set.
C4_Witness ==
    /\ pc = "scan_loop"
    /\ idx > 1
    /\ idx - 1 <= Len(listing)
    /\ listing[idx - 1] = <<".", "h">>
    /\ fs[<<".", "h">>].kind = "reg"
    /\ fs[<<".", "h">>].ino \notin Range(SeenSeq)

\* C5: seen_count stays within 0..MAX_SEEN and every write of mark_seen
\* falls inside the array.
C5_SeenSetBounded ==
    /\ seen_count \in 0..MAX_SEEN
    /\ last_write \in 0..(MAX_SEEN - 1)
    /\ DOMAIN seen_inodes = 0..(MAX_SEEN - 1)

\* C5 witness: more than MAX_SEEN distinct identities have been inserted.
C5_Witness ==
    /\ Cardinality(InsertedInodes) > MAX_SEEN
    /\ seen_count = MAX_SEEN

\* C6: the seen-set is the last min(n, MAX_SEEN) inserted identities in
\* insertion order, n being the number of mark_seen calls so far.
C6_FifoEviction ==
    /\ seen_count = Min(Len(inserted), MAX_SEEN)
    /\ \A i \in 1..seen_count :
         i - 1 \in DOMAIN seen_inodes
           /\ seen_inodes[i - 1] = inserted[Len(inserted) - seen_count + i].ino

\* C6 witness: an insertion into a full set has evicted an identity that is
\* different from the one inserted.
C6_Witness ==
    /\ Len(inserted) > MAX_SEEN
    /\ inserted[Len(inserted) - MAX_SEEN].ino # inserted[Len(inserted)].ino
    /\ inserted[Len(inserted)].by = "scan"

\* C7 (as stated): after a fatal error of the wait the process is stopped
\* with both descriptors released and a non-zero exit status.
C7_FatalWaitExitsNonZero ==
    (pc = "Stopped" /\ fatal = "wait")
        => (kq = "closed" /\ dirfd = "closed" /\ exit_status # 0)

\* C10: a missing directory argument, an unrecognized flag, or a failure of
\* open, kqueue or the registration ends the process with status 1 before
\* Watching is entered, before any scan and before any record.
ArgsRejected ==
    (/\ pc = "args"
     /\ pc' # "Killed"
     /\ (pc' # pc \/ argv' # argv)
     /\ \/ argv = <<>> /\ dirpath = <<>>
        \/ argv # <<>> /\ argv[1][1] = "-" /\ argv[1] # <<"-", "0">>)
        => (pc' = "Stopped" /\ exit_status' = 1)
NothingDone ==
    /\ ~entered_watching
    /\ nscans = 0
    /\ output = <<>>
    /\ inserted = <<>>
    /\ pc \notin {"seed_open", "seed_loop", "loop", "wait", "settle",
                  "scan_open", "scan_loop", "cleanup"}
C10_FatalStartupErrors ==
    /\ [][ArgsRejected]_vars
    /\ [](fatal \in {"usage", "open", "kqueue", "register"}
            => (pc = "Stopped" /\ exit_status = 1 /\ NothingDone))

\* C10 witness: the registration failed after the directory and the kqueue
\* were opened.
C10_Witness ==
    /\ pc = "Stopped"
    /\ fatal = "register"
    /\ exit_status = 1

\* C8: once the shutdown flag is set in Watching, the loop starts no new
\* wait, at most one wait returns and at most one scan is started, and the
\* process reaches Stopped.
C8_ShutdownLatency ==
    /\ []((entered_watching /\ g_running = 0)
            => (flag_waits = 0 /\ flag_wait_returns <= 1 /\ flag_scans <= 1))
    /\ ((entered_watching /\ g_running = 0) ~> (pc = "Stopped"))

\* C8 witness: the flag was set during a wait that then returned an event;
\* the scan ran and the process stopped.
C8_Witness ==
    /\ pc = "Stopped"
    /\ g_running = 0
    /\ flag_wait_returns = 1
    /\ flag_scans = 1
    /\ exit_status = 0

\* C9: in Watching both signals run handle_signal; a signal delivered during
\* a reporting scan leaves the scan running to the end of its listing, every
\* new regular file met after it is emitted as a path with its separator,
\* and the process then exits with status 0.
WatchingPcs == {"loop", "wait", "settle", "scan_open", "scan_loop"}
NewRegular(name) ==
    /\ name[1] # "."
    /\ fs[name].kind = "reg"
    /\ fs[name].ino \notin Range(SeenSeq)
ScanStepAfterFlag ==
    (pc = "scan_loop" /\ g_running = 0 /\ (idx' # idx \/ pc' # pc))
        => IF idx <= Len(listing)
           THEN /\ pc' = "scan_loop"
                /\ idx' = idx + 1
                /\ listing' = listing
                /\ NewRegular(listing[idx])
                     => /\ Len(output') = Len(output) + 1
                        /\ SubSeq(output', 1, Len(output)) = output
                        /\ output'[Len(output')].path =
                             dirpath \o <<"/">> \o listing[idx]
                        /\ output'[Len(output')].sep \in {"NUL", "LF"}
           ELSE pc' = "loop" /\ output' = output
C9_GracefulShutdown ==
    /\ [](pc \in WatchingPcs
            => \A s \in Signals : handler[s] = "handle_signal")
    /\ [][ScanStepAfterFlag]_vars
    /\ []((pc = "Stopped" /\ sig_in_scan) => exit_status = 0)

\* C9 witness: a scan that started before the flag was set was hit by a
\* signal, emitted a record afterwards, and the process exited with 0.
C9_Witness ==
    /\ pc = "Stopped"
    /\ exit_status = 0
    /\ sig_in_scan
    /\ flag_scans = 0
    /\ \E k \in 1..Len(output) : output[k].running = 0
\* C11: every record on the stream is the path dirpath/name followed by one
\* separator and nothing else; the separator is the null byte in a session
\* whose arguments held -0 and the newline in every other session, and no
\* separator occurs inside a record.
ExpectedSeparator == IF given_0 THEN "NUL" ELSE "LF"
C11_SeparatorCorrectness ==
    \A k \in 1..Len(output) :
        LET b == output[k].bytes
            p == dirpath \o <<"/">> \o output[k].name
        IN  /\ Len(b) = Len(p) + 1
            /\ SubSeq(b, 1, Len(p)) = p
            /\ b[Len(b)] = ExpectedSeparator
            /\ \A i \in 1..Len(p) : b[i] \notin {"NUL", "LF"}

\* C11 witness: a session started with -0 after the directory has emitted
\* two records.
C11_Witness ==
    /\ given_0
    /\ argv = <<>>
    /\ Len(output) >= 2
    /\ output[1].bytes[Len(output[1].bytes)] = "NUL"
    /\ output[2].bytes[Len(output[2].bytes)] = "NUL"
\* C13: g_running is 1 until a handler is installed; a step changes it only
\* by taking it from 1 to 0, and that step is the run of an installed
\* handler, which leaves every variable of main alone; once 0 it stays 0.
FlagOnlySetBySignal ==
    g_running' # g_running
        => /\ g_running = 1
           /\ g_running' = 0
           /\ \E s \in Signals : handler[s] = "handle_signal"
           /\ UNCHANGED << progvars, fs, event_pending >>
FlagStaysSet == g_running = 0 => g_running' = 0
C13_ShutdownFlagLifecycle ==
    /\ [](pc \in {"args", "sigaction_term"} => g_running = 1)
    /\ [][FlagOnlySetBySignal]_vars
    /\ [][FlagStaysSet]_vars

\* C13 witness: the flag was set during a reporting scan and is still set
\* after the scan, the loop condition and the exit.
C13_Witness ==
    /\ pc = "Stopped"
    /\ sig_in_scan
    /\ g_running = 0
    /\ fatal = "none"

\* C14: a return of kevent by timeout or by EINTR goes back to the loop
\* condition with the seen-set, the output and the number of scans
\* unchanged; the settle delay is entered only from a wait that retrieved a
\* pending notification, and scan_and_report is entered only from the
\* settle delay.
WaitWithoutEvent ==
    (pc = "wait" /\ pc' = "loop")
        => /\ seen_inodes' = seen_inodes
           /\ seen_count' = seen_count
           /\ inserted' = inserted
           /\ output' = output
           /\ nscans' = nscans
           /\ UNCHANGED << listing, idx >>
ScanOnlyAfterEvent ==
    /\ (pc' = "settle" /\ pc # "settle")
          => (pc = "wait" /\ event_pending /\ ~event_pending')
    /\ (pc' = "scan_open" /\ pc # "scan_open") => pc = "settle"
    /\ (pc' = "scan_loop" /\ pc # "scan_loop") => pc = "scan_open"
    /\ (entered_watching /\ nscans' # nscans) => pc = "scan_open"
    /\ output' # output => pc = "scan_loop"
C14_NoScanWithoutNotification ==
    /\ [][WaitWithoutEvent]_vars
    /\ [][ScanOnlyAfterEvent]_vars

\* C14 witness: after an earlier scan reported a file, a wait during which
\* a signal arrived has returned without a scan being started, and the loop
\* is back at its condition.
C14_Witness ==
    /\ pc = "loop"
    /\ g_running = 0
    /\ flag_wait_returns = 1
    /\ flag_scans = 0
    /\ ~sig_in_scan
    /\ Len(output) >= 1
\* C15: dirfd and kq each go from unopened to open at most once and from
\* open to closed, never back; both are open, with the filter registered,
\* from the initial scan to the end of the event loop; and when main has
\* returned neither is left open, on the graceful path, after a fatal wait
\* error and after a failure of kqueue or of the registration.
DescriptorLifecycle(d) ==
    d' # d => \/ d = "none" /\ d' = "open"
              \/ d = "open" /\ d' = "closed"
C15_SubscriptionLifecycle ==
    /\ [][DescriptorLifecycle(dirfd) /\ DescriptorLifecycle(kq)]_vars
    /\ [](pc \in {"seed_open", "seed_loop", "loop", "wait", "settle",
                   "scan_open", "scan_loop"}
            => (dirfd = "open" /\ kq = "open" /\ registered))
    /\ [](pc = "Stopped" => (dirfd # "open" /\ kq # "open"))
    /\ []((pc = "Stopped" /\ fatal \in {"none", "wait", "register"})
            => (dirfd = "closed" /\ kq = "closed"))
    /\ []((pc = "Stopped" /\ fatal = "kqueue") => dirfd = "closed")

\* C15 witness: kqueue() failed after the directory was opened, and main
\* returned with the directory closed.
C15_Witness ==
    /\ pc = "Stopped"
    /\ fatal = "kqueue"
    /\ dirfd = "closed"
    /\ kq = "none"
\* What scan_and_report does to the seen-set for the entries that pass its
\* name, stat and S_ISREG tests, given their inodes in listing order: each
\* inode goes through is_seen and is passed to mark_seen when it is absent
\* (lines 87-88).
RECURSIVE ScanSeen(_, _, _)
ScanSeen(inos, arr, cnt) ==
    IF inos = <<>>
    THEN [arr |-> arr, cnt |-> cnt]
    ELSE IF is_seen(arr, cnt, Head(inos))
         THEN ScanSeen(Tail(inos), arr, cnt)
         ELSE LET m == mark_seen(arr, cnt, Head(inos))
              IN  ScanSeen(Tail(inos), m.arr, m.cnt)

\* C16 (as stated): when the initial scan has ended, the seen-set is the one
\* scan_and_report would have built from the empty set over the same
\* entries, hard links included.
C16_SeedingIsQuietReportingScan ==
    (entered_watching /\ nscans = 1)
        => LET r == ScanSeen([p \in 1..Len(inserted) |-> inserted[p].ino],
                             [i \in 0..(MAX_SEEN - 1) |-> 0], 0)
           IN  /\ seen_count = r.cnt
               /\ \A i \in 0..(seen_count - 1) : seen_inodes[i] = r.arr[i]

\* C17 (as stated): no inode is in two slots of seen_inodes[0 ..
\* seen_count-1].
C17_NoDuplicateInSeenSet ==
    \A i, j \in 0..(seen_count - 1) :
        i # j => seen_inodes[i] # seen_inodes[j]
\* C18 (as stated): a step of scan_and_report over an entry emits a record
\* exactly when the entry is a regular file with a name that is not hidden
\* and an inode that is not in the seen-set, and the same step inserts that
\* inode; the number of records is the number of mark_seen calls made by
\* scan_and_report, and the inode of the last record is in the seen-set.
EntryExamined ==
    /\ pc = "scan_loop"
    /\ idx <= Len(listing)
    /\ idx' = idx + 1
EmittedIffNewRegularFile ==
    EntryExamined
        => LET name == listing[idx]
               emitted == Len(output') = Len(output) + 1
           IN  /\ emitted <=> (/\ name[1] # "."
                               /\ fs[name].kind = "reg"
                               /\ fs[name].ino \notin Range(SeenSeq))
               /\ emitted
                    => /\ Len(inserted') = Len(inserted) + 1
                       /\ inserted'[Len(inserted')].ino = fs[name].ino
                       /\ inserted'[Len(inserted')].by = "scan"
                       /\ output'[Len(output')].ino = fs[name].ino
                       /\ \E i \in 0..(seen_count' - 1) :
                            seen_inodes'[i] = fs[name].ino
               /\ ~emitted => (output' = output /\ inserted' = inserted)
RecordsMatchInserts ==
    /\ Len(output) =
         Cardinality({p \in 1..Len(inserted) : inserted[p].by = "scan"})
    /\ output # <<>>
         => \E i \in 0..(seen_count - 1) :
              seen_inodes[i] = output[Len(output)].ino
C18_EmissionInsertionCoupled ==
    /\ [][EmittedIffNewRegularFile]_vars
    /\ []RecordsMatchInserts
\* C12 (as stated): a regular file that appears under a name that is not
\* hidden once the event loop is running, with an inode that is not in the
\* seen-set, is eventually emitted, unless it leaves the directory, a signal
\* sets the shutdown flag or kevent fails.  The names are those the
\* directory did not hold at the start, so the file was created while the
\* loop was running.
AppearedNew(name, i) ==
    /\ entered_watching
    /\ fs[name] = [kind |-> "reg", to |-> "reg", ino |-> i]
    /\ i \notin Range(SeenSeq)
EmittedOrExcused(name, i) ==
    \/ \E k \in 1..Len(output) : output[k].name = name /\ output[k].ino = i
    \/ fs[name] # [kind |-> "reg", to |-> "reg", ino |-> i]
    \/ g_running = 0
    \/ fatal = "wait"
C12_NewFilesEventuallyReported ==
    \A name \in {<<"b">>, <<"c">>}, i \in Inodes :
        AppearedNew(name, i) ~> EmittedOrExcused(name, i)
====
